---- MODULE Spec2Model ----
(***************************************************************************)
(* A model of local-fileserver (src/main.go): the path resolver            *)
(* safeJoinPath, the recursive lister listFilesRecursive, the access gate  *)
(* localNetworkFilter / isLocalIP and the two HTTP handlers (homeHandler,  *)
(* downloadHandler) over a small file system.                              *)
(*                                                                         *)
(* Strings are sequences of one-character strings, so that the character   *)
(* level operations of the code (TrimPrefix, HasPrefix, LastIndex) and the *)
(* path operations of path/filepath (Clean, Join, Rel, Base; Unix build)   *)
(* are computed as the code computes them.                                 *)
(***************************************************************************)
EXTENDS Integers, Sequences, FiniteSets, TLC

VARIABLES
    resolver,   \* SpecPath: one call of safeJoinPath
    gate,       \* SpecGate: one pass of a request through localNetworkFilter
    fs,         \* the file system: cleaned absolute path -> node
    lister,     \* SpecList: one top-level call of listFilesRecursive
    server      \* Spec: the configuration and the requests being served

vars == <<resolver, gate, fs, lister, server>>

(***************************************************************************)
(* Bounds                                                                  *)
(***************************************************************************)
\* longest user path handed to safeJoinPath in SpecPath
MaxPathLen == 7
\* most entries below the served root in the trees SpecList lists
MaxNodes == 3
\* largest depth argument SpecList hands to listFilesRecursive
MaxDepth == 1

(***************************************************************************)
(* Strings                                                                 *)
(***************************************************************************)
Sep == "/"
Bsl == "\\"
Dot == "."

\* the characters user paths are built from
PathChars == {Sep, Bsl, Dot, "a"}

StringsOver(chars, n) == UNION {[1..k -> chars] : k \in 0..n}

DotDot == <<Dot, Dot>>

\* strings.HasPrefix(s, prefix)
HasPrefix(s, prefix) ==
    /\ Len(s) >= Len(prefix)
    /\ SubSeq(s, 1, Len(prefix)) = prefix

\* strings.TrimPrefix(s, prefix)
TrimPrefix(s, prefix) ==
    IF HasPrefix(s, prefix) THEN SubSeq(s, Len(prefix) + 1, Len(s)) ELSE s

\* strings.Split(s, "/"): the segments between separators, empty ones kept
RECURSIVE SplitFrom(_, _, _)
SplitFrom(s, i, cur) ==
    IF i > Len(s) THEN <<cur>>
    ELSE IF s[i] = Sep THEN <<cur>> \o SplitFrom(s, i + 1, <<>>)
    ELSE SplitFrom(s, i + 1, Append(cur, s[i]))

Split(s) == SplitFrom(s, 1, <<>>)

\* strings.Join(segs, "/")
RECURSIVE JoinSegs(_)
JoinSegs(segs) ==
    IF segs = <<>> THEN <<>>
    ELSE IF Len(segs) = 1 THEN segs[1]
    ELSE segs[1] \o <<Sep>> \o JoinSegs(Tail(segs))

(***************************************************************************)
(* path/filepath, Unix build                                               *)
(***************************************************************************)
\* the segment loop of filepath.Clean: "" and "." dropped, ".." pops the last
\* ordinary segment, is kept at the front of a relative path and is dropped
\* at the root of a rooted one
RECURSIVE CleanSegs(_, _, _)
CleanSegs(segs, rooted, out) ==
    IF segs = <<>> THEN out
    ELSE LET s == Head(segs)
             rest == Tail(segs)
         IN  IF s = <<>> \/ s = <<Dot>> THEN CleanSegs(rest, rooted, out)
             ELSE IF s = DotDot
                  THEN IF out # <<>> /\ out[Len(out)] # DotDot
                       THEN CleanSegs(rest, rooted, SubSeq(out, 1, Len(out) - 1))
                       ELSE IF ~rooted
                            THEN CleanSegs(rest, rooted, Append(out, DotDot))
                            ELSE CleanSegs(rest, rooted, out)
                  ELSE CleanSegs(rest, rooted, Append(out, s))

\* filepath.Clean(path)
Clean(path) ==
    IF path = <<>> THEN <<Dot>>
    ELSE LET rooted == path[1] = Sep
             body == JoinSegs(CleanSegs(Split(path), rooted, <<>>))
         IN  IF rooted THEN <<Sep>> \o body
             ELSE IF body = <<>> THEN <<Dot>> ELSE body

\* filepath.Join(a, b): empty leading elements are skipped, the rest is
\* joined with "/" and cleaned
Join(a, b) ==
    IF a # <<>> THEN Clean(a \o <<Sep>> \o b)
    ELSE IF b # <<>> THEN Clean(b)
    ELSE <<>>

\* the segments of a cleaned path, without the leading separator
CleanedSegs(path) ==
    LET body == IF path # <<>> /\ path[1] = Sep THEN Tail(path) ELSE path
    IN  IF body = <<>> THEN <<>> ELSE Split(body)

\* length of the common prefix of two segment sequences
RECURSIVE CommonLen(_, _)
CommonLen(a, b) ==
    IF a = <<>> \/ b = <<>> \/ Head(a) # Head(b) THEN 0
    ELSE 1 + CommonLen(Tail(a), Tail(b))

\* n times "..", as segments
RECURSIVE Ups(_)
Ups(n) == IF n = 0 THEN <<>> ELSE <<DotDot>> \o Ups(n - 1)

\* filepath.Rel(basepath, targpath)
Rel(basepath, targpath) ==
    LET base0 == Clean(basepath)
        targ == Clean(targpath)
        base == IF base0 = <<Dot>> THEN <<>> ELSE base0
        baseSlashed == base # <<>> /\ base[1] = Sep
        targSlashed == targ # <<>> /\ targ[1] = Sep
        bs == CleanedSegs(base)
        ts == CleanedSegs(targ)
        k == CommonLen(bs, ts)
        rb == SubSeq(bs, k + 1, Len(bs))
        rt == SubSeq(ts, k + 1, Len(ts))
    IN  IF targ = base0 THEN [err |-> FALSE, path |-> <<Dot>>]
        ELSE IF baseSlashed # targSlashed THEN [err |-> TRUE, path |-> <<>>]
        ELSE IF rb # <<>> /\ rb[1] = DotDot THEN [err |-> TRUE, path |-> <<>>]
        ELSE IF rb # <<>>
             THEN [err |-> FALSE, path |-> JoinSegs(Ups(Len(rb)) \o rt)]
             ELSE [err |-> FALSE, path |-> JoinSegs(rt)]

\* filepath.Base(path)
Base(path) ==
    IF path = <<>> THEN <<Dot>>
    ELSE LET segs == SelectSeq(Split(path), LAMBDA s : s # <<>>)
         IN  IF segs = <<>> THEN <<Sep>> ELSE segs[Len(segs)]

(***************************************************************************)
(* safeJoinPath                                                            *)
(***************************************************************************)
\* the result of a failed resolution
PathError == [err |-> TRUE, path |-> <<>>]

\* the check of line 463 left out
safeJoinPath_NoPrefixCheck(baseDir, userPath) ==
    LET cleanedPath == TrimPrefix(TrimPrefix(Clean(userPath), <<Sep>>), <<Bsl>>)
        fullPath == Join(baseDir, cleanedPath)
    IN  [err |-> FALSE, path |-> fullPath]

safeJoinPath(baseDir, userPath) ==
    LET cleanedPath == TrimPrefix(TrimPrefix(Clean(userPath), <<Sep>>), <<Bsl>>)
        fullPath == Join(baseDir, cleanedPath)
        rel == Rel(baseDir, fullPath)
    IN  IF rel.err THEN PathError
        ELSE IF HasPrefix(rel.path, DotDot) THEN PathError
        ELSE [err |-> FALSE, path |-> fullPath]

\* path is root itself or lies in root's subtree (both absolute and cleaned):
\* root's segments are a prefix of path's segments
IsWithin(root, path) ==
    LET rs == CleanedSegs(root)
        ps == CleanedSegs(path)
    IN  /\ path # <<>> /\ path[1] = Sep
        /\ Len(rs) <= Len(ps)
        /\ SubSeq(ps, 1, Len(rs)) = rs

(***************************************************************************)
(* SpecPath: safeJoinPath applied to every root and user path in bounds    *)
(***************************************************************************)
\* served roots: absolute, cleaned
Roots == {<<Sep>>, <<Sep, "a">>, <<Sep, "a", Sep, "a">>}

UserPaths == StringsOver(PathChars, MaxPathLen)

NoResult == [err |-> FALSE, path |-> <<>>]

Unused == [pc |-> "unused"]

InitPath ==
    /\ gate = Unused
    /\ server = Unused
    /\ fs = <<>>
    /\ lister = Unused
    /\ resolver \in [pc : {"call"}, baseDir : Roots, userPath : UserPaths,
                  result : {NoResult}]

Resolve ==
    /\ resolver.pc = "call"
    /\ resolver' = [resolver EXCEPT !.pc = "ret",
                       !.result = safeJoinPath(resolver.baseDir, resolver.userPath)]
    /\ UNCHANGED <<gate, fs, lister, server>>

NextPath == Resolve

SpecPath == InitPath /\ [][NextPath]_vars

\* C1: whatever the root and the user path, safeJoinPath returns an error or
\* an absolute path that is the root itself or lies in the root's subtree.
C1_NeverOutsideRoot ==
    resolver.pc = "ret" =>
        \/ resolver.result.err
        \/ IsWithin(resolver.baseDir, resolver.result.path)

\* a ".." behind a backslash, which Clean keeps and the trimming uncovers,
\* is rejected; a path that climbs and comes back is resolved to the root
C1_Witness_EscapeRejected ==
    /\ resolver.pc = "ret"
    /\ resolver.baseDir = <<Sep, "a">>
    /\ \/ resolver.userPath = <<Bsl, Dot, Dot>> /\ resolver.result.err
       \/ /\ resolver.userPath = <<Bsl, Dot, Dot, Sep, "a">>
          /\ resolver.result = [err |-> FALSE, path |-> <<Sep, "a">>]

(***************************************************************************)
(* Network addresses as text: net.ParseIP, net.IP, net.IPNet               *)
(***************************************************************************)
HexDigits == <<"0", "1", "2", "3", "4", "5", "6", "7", "8", "9",
               "a", "b", "c", "d", "e", "f">>

IsHexDigit(c) == \E i \in 1..16 : HexDigits[i] = c
IsDecDigit(c) == \E i \in 1..10 : HexDigits[i] = c
DigitVal(c) == (CHOOSE i \in 1..16 : HexDigits[i] = c) - 1

\* the number a string of digits denotes in the given base
RECURSIVE NumVal(_, _)
NumVal(s, base) ==
    IF s = <<>> THEN 0
    ELSE NumVal(SubSeq(s, 1, Len(s) - 1), base) * base + DigitVal(s[Len(s)])

\* strconv / fmt: a number as text in the given base, no leading zeros
RECURSIVE FormatNum(_, _)
FormatNum(n, base) ==
    IF n < base THEN <<HexDigits[n + 1]>>
    ELSE FormatNum(n \div base, base) \o <<HexDigits[(n % base) + 1]>>

\* the fields of s between occurrences of the character c
RECURSIVE FieldsFrom(_, _, _, _)
FieldsFrom(s, c, i, cur) ==
    IF i > Len(s) THEN <<cur>>
    ELSE IF s[i] = c THEN <<cur>> \o FieldsFrom(s, c, i + 1, <<>>)
    ELSE FieldsFrom(s, c, i + 1, Append(cur, s[i]))

Fields(s, c) == FieldsFrom(s, c, 1, <<>>)

RECURSIVE JoinWith(_, _)
JoinWith(fields, c) ==
    IF fields = <<>> THEN <<>>
    ELSE IF Len(fields) = 1 THEN fields[1]
    ELSE fields[1] \o <<c>> \o JoinWith(Tail(fields), c)

Contains(s, c) == \E i \in 1..Len(s) : s[i] = c

\* strings.LastIndex(s, c), 1-based; 0 when c does not occur (-1 in Go)
LastIndex(s, c) ==
    IF Contains(s, c) THEN CHOOSE i \in 1..Len(s) :
                               s[i] = c /\ \A j \in (i + 1)..Len(s) : s[j] # c
    ELSE 0

RECURSIVE Zeros(_)
Zeros(n) == IF n = 0 THEN <<>> ELSE <<0>> \o Zeros(n - 1)

NoIP == <<>>

\* the 16-byte form net.ParseIP gives an IPv4 address (net.IPv4)
V4InV6Prefix == Zeros(10) \o <<255, 255>>
IPv4(a, b, c, d) == V4InV6Prefix \o <<a, b, c, d>>

\* a decimal field of a dotted quad: 1 to 3 digits, no leading zero, <= 255
IsOctetText(f) ==
    /\ Len(f) \in 1..3
    /\ \A i \in 1..Len(f) : IsDecDigit(f[i])
    /\ (Len(f) > 1 => f[1] # "0")
    /\ NumVal(f, 10) <= 255

parseIPv4(s) ==
    LET flds == Fields(s, ".")
    IN  IF Len(flds) = 4 /\ \A i \in 1..4 : IsOctetText(flds[i])
        THEN IPv4(NumVal(flds[1], 10), NumVal(flds[2], 10),
                  NumVal(flds[3], 10), NumVal(flds[4], 10))
        ELSE NoIP

\* a group of an IPv6 address: 1 to 4 hex digits
IsGroupText(f) ==
    /\ Len(f) \in 1..4
    /\ \A i \in 1..Len(f) : IsHexDigit(f[i])

RECURSIVE GroupBytes(_)
GroupBytes(gs) ==
    IF gs = <<>> THEN <<>>
    ELSE LET v == NumVal(Head(gs), 16)
         IN  <<v \div 256, v % 256>> \o GroupBytes(Tail(gs))

\* the groups of an IPv6 text with at most one "::" (no zone, no dotted tail)
parseIPv6(s) ==
    LET dc == <<":", ":">>
        starts == HasPrefix(s, dc)
        s1 == IF starts THEN SubSeq(s, 3, Len(s)) ELSE s
        ends == Len(s1) >= 2 /\ SubSeq(s1, Len(s1) - 1, Len(s1)) = dc
        body == IF ends THEN SubSeq(s1, 1, Len(s1) - 2) ELSE s1
        flds == IF body = <<>> THEN <<>> ELSE Fields(body, ":")
        holes == {i \in 1..Len(flds) : flds[i] = <<>>}
        nEllipsis == (IF starts THEN 1 ELSE 0) + (IF ends THEN 1 ELSE 0)
                        + Cardinality(holes)
        groups == SelectSeq(flds, LAMBDA f : f # <<>>)
        at == IF starts THEN 0
              ELSE IF ends THEN Len(groups)
              ELSE IF holes # {} THEN (CHOOSE i \in holes : TRUE) - 1
              ELSE Len(groups)
        wellFormed ==
            /\ nEllipsis <= 1
            /\ \A i \in holes : i # 1 /\ i # Len(flds)
            /\ \A i \in 1..Len(groups) : IsGroupText(groups[i])
            /\ IF nEllipsis = 0 THEN Len(groups) = 8 ELSE Len(groups) <= 7
    IN  IF ~wellFormed THEN NoIP
        ELSE GroupBytes(SubSeq(groups, 1, at))
                \o Zeros(2 * (8 - Len(groups)))
                \o GroupBytes(SubSeq(groups, at + 1, Len(groups)))

\* net.ParseIP(s): a dotted quad when a "." comes first, colon groups when a
\* ":" comes first, nil otherwise; the result is the 16-byte form
ParseIP(s) ==
    LET firsts == {i \in 1..Len(s) : s[i] = "." \/ s[i] = ":"}
    IN  IF firsts = {} THEN NoIP
        ELSE LET i == CHOOSE k \in firsts : \A j \in firsts : k <= j
             IN  IF s[i] = "." THEN parseIPv4(s) ELSE parseIPv6(s)

\* IP.To4(): the 4 bytes of an IPv4(-mapped) address, nil otherwise
To4(ip) ==
    IF Len(ip) = 4 THEN ip
    ELSE IF Len(ip) = 16 /\ SubSeq(ip, 1, 12) = V4InV6Prefix
         THEN SubSeq(ip, 13, 16)
         ELSE NoIP

IPv6loopback == Zeros(15) \o <<1>>

\* IP.IsLoopback()
IsLoopback(ip) ==
    IF To4(ip) # NoIP THEN To4(ip)[1] = 127 ELSE ip = IPv6loopback

RECURSIVE Pow2(_)
Pow2(n) == IF n = 0 THEN 1 ELSE 2 * Pow2(n - 1)

\* byte i (1-based) of an address under a prefix mask of the given length
MaskedByte(b, i, bits) ==
    LET keep == IF bits >= 8 * i THEN 8
                ELSE IF bits <= 8 * (i - 1) THEN 0
                ELSE bits - 8 * (i - 1)
    IN  (b \div Pow2(8 - keep)) * Pow2(8 - keep)

\* net.ParseCIDR of the literals of isLocalIP, as mustParseCIDR returns them
CIDR(ip, bits) == [ip |-> ip, bits |-> bits]

\* IPNet.Contains(ip)
NetContains(block, ip0) ==
    LET ip == IF To4(ip0) # NoIP THEN To4(ip0) ELSE ip0
    IN  /\ Len(ip) = Len(block.ip)
        /\ \A i \in 1..Len(ip) :
               MaskedByte(block.ip[i], i, block.bits) = MaskedByte(ip[i], i, block.bits)

privateIPBlocks ==
    << CIDR(<<10, 0, 0, 0>>, 8),
       CIDR(<<172, 16, 0, 0>>, 12),
       CIDR(<<192, 168, 0, 0>>, 16),
       CIDR(<<169, 254, 0, 0>>, 16),
       CIDR(<<253, 0>> \o Zeros(14), 8) >>

\* only the loopback test, the private blocks forgotten
isLocalIP_LoopbackOnly(addr) ==
    LET ip == ParseIP(addr)
    IN  ip # NoIP /\ IsLoopback(ip)

isLocalIP(addr) ==
    LET ip == ParseIP(addr)
    IN  IF ip = NoIP THEN FALSE
        ELSE IF IsLoopback(ip) THEN TRUE
        ELSE \E i \in 1..Len(privateIPBlocks) : NetContains(privateIPBlocks[i], ip)

\* lines 600-603: the client address cut at its last ":"
clientIP(remoteAddr) ==
    LET i == LastIndex(remoteAddr, ":")
    IN  IF i # 0 THEN SubSeq(remoteAddr, 1, i - 1) ELSE remoteAddr

\* the filter passes every request
localNetworkFilter_Off(remoteAddr, localOnly) == TRUE

\* localNetworkFilter: TRUE when the request is passed on to next.ServeHTTP,
\* FALSE when it is answered with 403
localNetworkFilter(remoteAddr, localOnly) ==
    IF localOnly THEN isLocalIP(clientIP(remoteAddr)) ELSE TRUE

(***************************************************************************)
(* Client addresses: an IP (or none), written as text the way the net      *)
(* package writes a connection's remote address                            *)
(***************************************************************************)
\* IP.String() of an IPv4 address
FormatV4(b) ==
    JoinWith(<<FormatNum(b[1], 10), FormatNum(b[2], 10),
               FormatNum(b[3], 10), FormatNum(b[4], 10)>>, ".")

Groups(ip) == [i \in 1..8 |-> ip[2 * i - 1] * 256 + ip[2 * i]]

RECURSIVE ZeroRun(_, _)
ZeroRun(g, i) == IF i > Len(g) \/ g[i] # 0 THEN 0 ELSE 1 + ZeroRun(g, i + 1)

HexFields(g, from, to) == [i \in 1..(to - from + 1) |-> FormatNum(g[from + i - 1], 16)]

\* IP.String() of an IPv6 address: the first longest run of two or more zero
\* groups is written "::"
FormatV6(ip) ==
    LET g == Groups(ip)
        best == CHOOSE i \in 1..8 :
                    /\ \A j \in 1..8 : ZeroRun(g, j) <= ZeroRun(g, i)
                    /\ \A j \in 1..(i - 1) : ZeroRun(g, j) < ZeroRun(g, i)
        n == ZeroRun(g, best)
    IN  IF n < 2 THEN JoinWith(HexFields(g, 1, 8), ":")
        ELSE JoinWith(HexFields(g, 1, best - 1), ":") \o <<":", ":">>
                \o JoinWith(HexFields(g, best + n, 8), ":")

FormatIP(ip) == IF To4(ip) # NoIP THEN FormatV4(To4(ip)) ELSE FormatV6(ip)

\* net.JoinHostPort(host, port)
JoinHostPort(host, port) ==
    IF Contains(host, ":") THEN <<"[">> \o host \o <<"]", ":">> \o port
    ELSE host \o <<":">> \o port

V4Clients ==
    {IPv4(a, b, 0, 1) : a \in {8, 10, 11, 127, 169, 172, 192},
                        b \in {0, 15, 16, 31, 32, 168, 254}}

V6Of(first, last) == <<first \div 256, first % 256>> \o Zeros(12)
                        \o <<last \div 256, last % 256>>

V6Clients ==
    {V6Of(f, l) : f \in {0, 64768, 64767, 65023, 65024, 65152, 8193}, l \in {1, 2}}

\* hosts that are no IP address
BadHosts == {<<>>, <<"a">>, <<"1", ".", "2">>, <<"2", "5", "6", ".", "0", ".", "0", ".", "1">>}

ClientAddrs ==
    [ip : V4Clients \cup V6Clients, host : {<<>>}, hasPort : BOOLEAN]
        \cup [ip : {NoIP}, host : BadHosts, hasPort : BOOLEAN]

HostText(c) == IF c.ip # NoIP THEN FormatIP(c.ip) ELSE c.host

\* r.RemoteAddr of a request from client c
RemoteAddr(c) ==
    IF c.hasPort THEN JoinHostPort(HostText(c), <<"8", "0">>) ELSE HostText(c)

(***************************************************************************)
(* SpecGate: the access decision for every client address in bounds        *)
(***************************************************************************)
InitGate ==
    /\ resolver = Unused
    /\ server = Unused
    /\ fs = <<>>
    /\ lister = Unused
    /\ gate \in [pc : {"recv"}, client : ClientAddrs, localOnly : BOOLEAN,
                 passed : {FALSE}]

Filter ==
    /\ gate.pc = "recv"
    /\ gate' = [gate EXCEPT !.pc = "decided",
                   !.passed = localNetworkFilter(RemoteAddr(gate.client), gate.localOnly)]
    /\ UNCHANGED <<resolver, fs, lister, server>>

NextGate == Filter

SpecGate == InitGate /\ [][NextGate]_vars

\* the access decision of the specification: every client when the policy is
\* off; otherwise the clients whose address is an IP that is loopback or in
\* 10.0.0.0/8, 172.16.0.0/12, 192.168.0.0/16, 169.254.0.0/16 or fd00::/8
isPermitted(c, localOnly) ==
    \/ ~localOnly
    \/ /\ c.ip # NoIP
       /\ LET v4 == To4(c.ip)
          IN  IF v4 # NoIP
              THEN \/ v4[1] = 127
                   \/ v4[1] = 10
                   \/ v4[1] = 172 /\ v4[2] \in 16..31
                   \/ v4[1] = 192 /\ v4[2] = 168
                   \/ v4[1] = 169 /\ v4[2] = 254
              ELSE \/ c.ip = IPv6loopback
                   \/ c.ip[1] = 253

\* C4: the decision of localNetworkFilter + isLocalIP equals isPermitted for
\* every client address, IPv4 or IPv6, written with or without a port.
C4_FilterEqualsIsPermitted ==
    gate.pc = "decided" =>
        gate.passed = isPermitted(gate.client, gate.localOnly)

\* the part of C4 the code satisfies: IPv4 clients and hosts that are no IP
\* address, with or without a port, and every client when the policy is off
C4_HoldsForIPv4 ==
    (gate.pc = "decided" /\ (~gate.localOnly \/ To4(gate.client.ip) # NoIP
                                \/ gate.client.ip = NoIP)) =>
        gate.passed = isPermitted(gate.client, gate.localOnly)

(***************************************************************************)
(* The file system                                                         *)
(***************************************************************************)
\* characters in byte order, for the order of directory entries
CharOrder == <<"&", ".", "/", "\\", "a", "b", "f", "g", "r", "x">>

CharRank(c) == CHOOSE i \in 1..Len(CharOrder) : CharOrder[i] = c

\* s sorts before t, byte by byte
RECURSIVE StrLess(_, _)
StrLess(s, t) ==
    IF t = <<>> THEN FALSE
    ELSE IF s = <<>> THEN TRUE
    ELSE IF s[1] # t[1] THEN CharRank(s[1]) < CharRank(t[1])
    ELSE StrLess(Tail(s), Tail(t))

RECURSIVE SortStrs(_)
SortStrs(set) ==
    IF set = {} THEN <<>>
    ELSE LET m == CHOOSE x \in set : \A y \in set \ {x} : StrLess(x, y)
         IN  <<m>> \o SortStrs(set \ {m})

\* a directory; size is what Stat reports for it on the platform
DirNode(size, readable) ==
    [kind |-> "dir", data |-> <<>>, size |-> size, readable |-> readable]

\* a regular file holding the bytes data
FileNode(data) ==
    [kind |-> "file", data |-> data, size |-> 0, readable |-> TRUE]

\* os.FileInfo.Size()
SizeOf(node) == IF node.kind = "file" THEN Len(node.data) ELSE node.size

Exists(f, path) == path \in DOMAIN f
IsDirAt(f, path) == Exists(f, path) /\ f[path].kind = "dir"

\* the directory holding path
ParentOf(path) == Clean(path \o <<Sep, Dot, Dot>>)

ChildrenOf(f, path) == {q \in DOMAIN f : q # path /\ ParentOf(q) = path}

\* os.ReadDir(path): the entry names sorted by file name, or an error when
\* path is missing, is no directory or may not be read
ReadDir(f, path) ==
    IF ~IsDirAt(f, path) \/ ~f[path].readable
    THEN [err |-> TRUE, names |-> <<>>]
    ELSE [err |-> FALSE, names |-> SortStrs({Base(q) : q \in ChildrenOf(f, path)})]

(***************************************************************************)
(* listFilesRecursive, one step per directory entry                        *)
(***************************************************************************)
\* lines 531-538
FileInfo(name, size, isDir, path) ==
    [Name |-> name, Size |-> size, IsDir |-> isDir, Path |-> path,
     Expanded |-> FALSE, Children |-> <<>>]

NoFile == [Name |-> <<>>]

\* what a call that read no directory has in place of the entries
NoEntries == [err |-> TRUE, names |-> <<>>]

\* lines 509-519: the start of a call, given the resolved path and what
\* ReadDir returned for it; the frame of the call when the directory was read
OpenDir(currentPath, entries, relativePath, depth) ==
    IF currentPath.err THEN [err |-> TRUE, why |-> "path"]
    ELSE IF entries.err THEN [err |-> TRUE, why |-> "io"]
    ELSE [err |-> FALSE,
          frame |-> [relativePath |-> relativePath, depth |-> depth,
                     dir |-> currentPath.path, entries |-> entries.names,
                     result |-> <<>>, pending |-> NoFile]]

\* line 514 is reached only when line 509 gave no error
ReadDirIfResolved(f, currentPath) ==
    IF currentPath.err THEN NoEntries ELSE ReadDir(f, currentPath.path)

\* the entry's path taken to be its bare name
EntryPath_NameOnly(relativePath, name) == name

\* lines 526-529
EntryPath(relativePath, name) ==
    LET entryPath == Join(relativePath, name)
    IN  IF entryPath = <<>> THEN name ELSE entryPath

\* the recursive call made with the caller's depth
RecurseDepth_Same(depth) == depth

\* line 542: the depth handed to the recursive call
RecurseDepth(depth) == depth - 1

\* line 541 with the depth test dropped
ShouldRecurse_Always(isDir, depth) == isDir

\* line 541
ShouldRecurse(isDir, depth) == isDir /\ depth > 0

Top(stack) == stack[Len(stack)]
Pop(stack) == SubSeq(stack, 1, Len(stack) - 1)
SetTop(stack, frame) == [stack EXCEPT ![Len(stack)] = frame]

\* one call made: its arguments, its caller's depth and the directory it read
CallRecord(relativePath, depth, callerDepth, currentPath) ==
    [relativePath |-> relativePath, depth |-> depth, callerDepth |-> callerDepth,
     dir |-> currentPath.path]

\* the top-level call
ListCall ==
    /\ lister.pc = "call"
    /\ \E currentPath \in {safeJoinPath(lister.baseDir, lister.relativePath)} :
       \E entries \in {ReadDirIfResolved(fs, currentPath)} :
       \E o \in {OpenDir(currentPath, entries, lister.relativePath, lister.depth)} :
           IF o.err
           THEN lister' = [lister EXCEPT !.pc = "done", !.err = TRUE, !.why = o.why,
                              !.steps = @ + 1]
           ELSE lister' = [lister EXCEPT !.pc = "run", !.stack = <<o.frame>>,
                              !.steps = @ + 1,
                              !.calls = <<CallRecord(lister.relativePath, lister.depth,
                                                     lister.depth + 1, currentPath)>>]
    /\ UNCHANGED <<resolver, gate, fs, server>>

\* the entry of a failed recursive call left out of the result
FailedSubdir_Dropped(result, fileInfo) == result

\* lines 543-548 when the recursive call failed: the entry is appended with
\* the children it has, none
FailedSubdir(result, fileInfo) == Append(result, fileInfo)

\* lines 541-546: the entry is a directory within the depth limit; the
\* recursive call starts, and when it fails the entry keeps no children
ListEntryRecurse(fr, rest, fileInfo) ==
    \E currentPath \in {safeJoinPath(lister.baseDir, fileInfo.Path)} :
    \E entries \in {ReadDirIfResolved(fs, currentPath)} :
    \E o \in {OpenDir(currentPath, entries, fileInfo.Path, RecurseDepth(fr.depth))} :
    \E call \in {CallRecord(fileInfo.Path, RecurseDepth(fr.depth), fr.depth, currentPath)} :
        IF o.err
        THEN lister' = [lister EXCEPT
                !.stack = SetTop(lister.stack,
                    [rest EXCEPT !.result = FailedSubdir(fr.result, fileInfo)]),
                !.calls = Append(lister.calls, call),
                !.steps = @ + 1]
        ELSE lister' = [lister EXCEPT
                !.stack = Append(SetTop(lister.stack,
                    [rest EXCEPT !.pending = fileInfo]), o.frame),
                !.calls = Append(lister.calls, call),
                !.steps = @ + 1]

\* lines 520-549: one iteration of the loop in the running call
ListEntry ==
    /\ lister.pc = "run"
    /\ Top(lister.stack).entries # <<>>
    /\ \E fr \in {Top(lister.stack)} :
       \E name \in {Head(fr.entries)} :
       \E node \in {fs[Join(fr.dir, name)]} :
       \E entryPath \in {EntryPath(fr.relativePath, name)} :
       \E fileInfo \in {FileInfo(name, SizeOf(node), node.kind = "dir", entryPath)} :
       \E rest \in {[fr EXCEPT !.entries = Tail(fr.entries)]} :
           IF ShouldRecurse(fileInfo.IsDir, fr.depth)
           THEN ListEntryRecurse(fr, rest, fileInfo)
           ELSE lister' = [lister EXCEPT
                    !.stack = SetTop(lister.stack,
                        [rest EXCEPT !.result = Append(fr.result, fileInfo)]),
                    !.steps = @ + 1]
    /\ UNCHANGED <<resolver, gate, fs, server>>

\* line 551: the running call returns its result; in the caller it becomes
\* the children of the entry being handled (lines 543-548)
ListReturn ==
    /\ lister.pc = "run"
    /\ Top(lister.stack).entries = <<>>
    /\ \E fr \in {Top(lister.stack)} :
           IF Len(lister.stack) = 1
           THEN lister' = [lister EXCEPT !.pc = "done", !.stack = <<>>,
                              !.files = fr.result, !.steps = @ + 1]
           ELSE \E caller \in {lister.stack[Len(lister.stack) - 1]} :
                \E fileInfo \in {[caller.pending EXCEPT !.Children = fr.result]} :
                    lister' = [lister EXCEPT
                        !.stack = SetTop(Pop(lister.stack),
                            [caller EXCEPT !.result = Append(caller.result, fileInfo),
                                           !.pending = NoFile]),
                        !.steps = @ + 1]
    /\ UNCHANGED <<resolver, gate, fs, server>>

(***************************************************************************)
(* SpecList: listFilesRecursive on every tree, path and depth in bounds    *)
(***************************************************************************)
\* the root SpecList serves
ListRoot == <<Sep, "r">>

\* names of directory entries: a plain one and one beginning with two dots
EntryNames == {<<"a">>, <<Dot, Dot, "a">>}

\* what Stat reports as the size of a directory (0, or a block)
DirSizes == {0, 4096}

NewNodes(dsz) == {FileNode(<<"x", "x">>), DirNode(dsz, TRUE), DirNode(dsz, FALSE)}

\* the trees with one more entry than t
Grow(t) ==
    {(Join(d, n) :> node) @@ t :
        d \in {q \in DOMAIN t : t[q].kind = "dir"},
        n \in EntryNames,
        node \in NewNodes(t[ListRoot].size)}

RECURSIVE TreesUpTo(_)
TreesUpTo(k) ==
    IF k = 0 THEN {(ListRoot :> DirNode(dsz, TRUE)) : dsz \in DirSizes}
    ELSE LET smaller == TreesUpTo(k - 1)
         IN  smaller \cup UNION {Grow(t) : t \in smaller}

Trees == TreesUpTo(MaxNodes)

\* the relative paths SpecList lists
ListPaths == {<<>>, <<"a">>, <<"a", Sep, "a">>, <<Dot, Dot>>,
              <<Dot, Dot, "a">>, <<"a", Sep, Dot, Dot>>}

InitList ==
    /\ resolver = Unused
    /\ gate = Unused
    /\ server = Unused
    /\ fs \in Trees
    /\ lister \in [pc : {"call"}, baseDir : {ListRoot}, relativePath : ListPaths,
                   depth : 0..MaxDepth, stack : {<<>>}, calls : {<<>>},
                   files : {<<>>}, err : {FALSE}, why : {""}, steps : {0}]

NextList == ListCall \/ ListEntry \/ ListReturn

SpecList == InitList /\ [][NextList]_vars

\* the deepest level of a node with children below a sequence of entries
RECURSIVE MaxLevel(_)
MaxLevel(files) ==
    LET expanded == {i \in 1..Len(files) : files[i].Children # <<>>}
    IN  IF expanded = {} THEN 0
        ELSE LET below == {MaxLevel(files[i].Children) : i \in expanded}
             IN  1 + CHOOSE m \in below : \A n \in below : n <= m

\* every recursive call gets its caller's depth less one and no call gets a
\* negative depth; the running calls are nested at most depth + 1 deep; the
\* result has no children below level depth (none at all at depth 0)
C9_DepthBound ==
    /\ \A i \in 1..Len(lister.calls) :
           /\ lister.calls[i].depth >= 0
           /\ i > 1 => lister.calls[i].depth = lister.calls[i].callerDepth - 1
    /\ lister.pc = "run" =>
           /\ Len(lister.stack) <= lister.depth + 1
           /\ \A i \in 1..Len(lister.stack) :
                  lister.stack[i].depth = lister.depth - (i - 1)
    /\ lister.pc = "done" =>
           /\ MaxLevel(lister.files) <= lister.depth
           /\ lister.depth = 0 =>
                  \A i \in 1..Len(lister.files) : lister.files[i].Children = <<>>

\* until the call has returned one of its steps can be taken (ListCall when
\* it starts, ListEntry while the running call has entries left, ListReturn
\* when it has none), and it takes at most one step to start, one per entry
\* on disk and one return per directory read
C9_Progress ==
    /\ lister.pc \in {"call", "run", "done"}
    /\ lister.pc = "run" =>
           /\ lister.stack # <<>>
           /\ Top(lister.stack).entries # <<>> =>
                  Exists(fs, Join(Top(lister.stack).dir, Head(Top(lister.stack).entries)))
    /\ lister.steps <= 2 * Cardinality(DOMAIN fs)

\* C9: listFilesRecursive terminates for every tree and every depth >= 0:
\* each recursive call is made with depth-1, at depth 0 every entry has an
\* empty children sequence, and the returned tree is never nested more than
\* depth levels below the top-level entries.
C9_TerminatesWithinDepth == C9_DepthBound /\ C9_Progress

\* a listing at depth 1 of a root holding a/a/a on disk has returned: a/a is
\* in the result and its children are cut off
C9_Witness_Truncated ==
    /\ lister.pc = "done" /\ ~lister.err
    /\ lister.depth = 1 /\ lister.relativePath = <<>>
    /\ Exists(fs, ListRoot \o <<Sep, "a", Sep, "a", Sep, "a">>)
    /\ \E i \in 1..Len(lister.files) :
           \E j \in 1..Len(lister.files[i].Children) :
               /\ lister.files[i].Children[j].IsDir
               /\ lister.files[i].Children[j].Path = <<"a", Sep, "a">>
               /\ lister.files[i].Children[j].Children = <<>>

\* every node of files, at every level, has the path Join(parent, Name) and
\* that path, put under root, lies within root
RECURSIVE NodesWithin(_, _, _)
NodesWithin(files, parent, root) ==
    \A i \in 1..Len(files) :
        /\ files[i].Path = Join(parent, files[i].Name)
        /\ IsWithin(root, Join(root, files[i].Path))
        /\ NodesWithin(files[i].Children, files[i].Path, root)

\* C10: every node at every level of the returned tree has the relative path
\* join(path of its parent directory, entry name), which lies within root; a
\* relativePath that escapes root yields an error and no nodes.
C10_NodesWithinRoot ==
    lister.pc = "done" =>
        /\ NodesWithin(lister.files, lister.relativePath, lister.baseDir)
        /\ safeJoinPath(lister.baseDir, lister.relativePath).err =>
               lister.err /\ lister.files = <<>> /\ lister.calls = <<>>

\* a listing of "a" has returned a nested node a/a/a
C10_Witness_Nested ==
    /\ lister.pc = "done" /\ ~lister.err
    /\ lister.relativePath = <<"a">>
    /\ \E i \in 1..Len(lister.files) :
           \E j \in 1..Len(lister.files[i].Children) :
               lister.files[i].Children[j].Path = <<"a", Sep, "a", Sep, "a">>

\* a listing of ".." has ended with an error
C10_Witness_EscapeRejected ==
    /\ lister.pc = "done" /\ lister.err
    /\ lister.relativePath = DotDot

(***************************************************************************)
(* listFilesRecursive as one function, for the handler that calls it       *)
(***************************************************************************)
\* F applied to the value of v
Bind(v, F(_)) == CHOOSE r \in {F(x) : x \in {v}} : TRUE

RECURSIVE ConcatAll(_)
ConcatAll(seqs) == IF seqs = <<>> THEN <<>> ELSE Head(seqs) \o ConcatAll(Tail(seqs))

\* a failed call: no entries; reads are the directories handed to os.ReadDir,
\* calls counts the calls of listFilesRecursive (one safeJoinPath each)
ListError(reads) == [err |-> TRUE, files |-> <<>>, reads |-> reads, calls |-> 1]

RECURSIVE SumAll(_)
SumAll(nums) == IF nums = <<>> THEN 0 ELSE Head(nums) + SumAll(Tail(nums))

RECURSIVE listFilesRecursive(_, _, _, _)

\* lines 521-548: the node of one entry, with the directories read for it
EntryNode(f, baseDir, relativePath, depth, dir, name) ==
    Bind(f[Join(dir, name)], LAMBDA node :
    Bind(FileInfo(name, SizeOf(node), node.kind = "dir", EntryPath(relativePath, name)),
         LAMBDA fileInfo :
        IF ShouldRecurse(fileInfo.IsDir, depth)
        THEN Bind(listFilesRecursive(f, baseDir, fileInfo.Path, RecurseDepth(depth)),
                  LAMBDA sub :
                      [info |-> IF sub.err THEN fileInfo
                                ELSE [fileInfo EXCEPT !.Children = sub.files],
                       reads |-> sub.reads, calls |-> sub.calls])
        ELSE [info |-> fileInfo, reads |-> <<>>, calls |-> 0]))

listFilesRecursive(f, baseDir, relativePath, depth) ==
    Bind(safeJoinPath(baseDir, relativePath), LAMBDA currentPath :
        IF currentPath.err THEN ListError(<<>>)
        ELSE Bind(ReadDir(f, currentPath.path), LAMBDA entries :
            IF entries.err THEN ListError(<<currentPath.path>>)
            ELSE Bind([i \in 1..Len(entries.names) |->
                          EntryNode(f, baseDir, relativePath, depth,
                                    currentPath.path, entries.names[i])],
                      LAMBDA nodes :
                          [err |-> FALSE,
                           files |-> [i \in 1..Len(nodes) |-> nodes[i].info],
                           reads |-> <<currentPath.path>>
                                       \o ConcatAll([i \in 1..Len(nodes) |-> nodes[i].reads]),
                           calls |-> 1 + SumAll([i \in 1..Len(nodes) |-> nodes[i].calls])])))

\* the step machine returns what the function returns
ListerAgrees ==
    lister.pc = "done" =>
        Bind(listFilesRecursive(fs, lister.baseDir, lister.relativePath, lister.depth),
             LAMBDA r :
                 /\ r.err = lister.err
                 /\ r.files = lister.files)

(***************************************************************************)
(* net/http as the program uses it                                         *)
(***************************************************************************)
\* the depth homeHandler hands to listFilesRecursive
ListDepth == 10

\* most requests accepted in one behaviour
MaxRequests == 2

UrlDownload == <<Sep, "d", "o", "w", "n", "l", "o", "a", "d", Sep>>

\* strings.Index(s, c), 1-based; 0 when c does not occur
Index(s, c) ==
    IF Contains(s, c) THEN CHOOSE i \in 1..Len(s) :
                               s[i] = c /\ \A j \in 1..(i - 1) : s[j] # c
    ELSE 0

\* net/http cleanPath: the canonical form of a URL path, a trailing slash kept
cleanPath(p) ==
    IF p = <<>> THEN <<Sep>>
    ELSE Bind(IF p[1] # Sep THEN <<Sep>> \o p ELSE p, LAMBDA q :
         Bind(Clean(q), LAMBDA np :
             IF q[Len(q)] = Sep /\ np # <<Sep>> THEN np \o <<Sep>> ELSE np))

\* the ServeMux of lines 797-799 with patterns "/" and "/download/": a path
\* that is not canonical, and "/download" itself, are answered by the mux
\* with a redirect; every other path goes to the handler of the longest
\* matching pattern
ServeMux(urlPath) ==
    Bind(cleanPath(urlPath), LAMBDA path :
        IF path # urlPath THEN [handler |-> "redirect", location |-> path]
        ELSE IF path \o <<Sep>> = UrlDownload
             THEN [handler |-> "redirect", location |-> UrlDownload]
        ELSE IF HasPrefix(path, UrlDownload)
             THEN [handler |-> "download", location |-> <<>>]
        ELSE [handler |-> "home", location |-> <<>>])

\* url.QueryUnescape on the characters of the model: "+" stands for a space
QueryUnescape(s) == [i \in 1..Len(s) |-> IF s[i] = "+" THEN " " ELSE s[i]]

\* the key=value pairs of a raw query, in order
QueryPairs(rawQuery) ==
    Bind(SelectSeq(Fields(rawQuery, "&"), LAMBDA kv : kv # <<>>), LAMBDA kvs :
        [i \in 1..Len(kvs) |->
            Bind(Index(kvs[i], "="), LAMBDA eq :
                IF eq = 0 THEN [key |-> QueryUnescape(kvs[i]), value |-> <<>>]
                ELSE [key |-> QueryUnescape(SubSeq(kvs[i], 1, eq - 1)),
                      value |-> QueryUnescape(SubSeq(kvs[i], eq + 1, Len(kvs[i])))])])

KeyPath == <<"p", "a", "t", "h">>

\* r.URL.Query()[key]
QueryValues(rawQuery, key) ==
    Bind(SelectSeq(QueryPairs(rawQuery), LAMBDA kv : kv.key = key), LAMBDA kvs :
        [i \in 1..Len(kvs) |-> kvs[i].value])

\* r.URL.Query().Get(key)
QueryGet(rawQuery, key) ==
    Bind(QueryValues(rawQuery, key), LAMBDA vs : IF vs = <<>> THEN <<>> ELSE vs[1])

\* the body of a request without a multipart form
NoForm == [hasFile |-> FALSE, fileName |-> <<>>, data |-> <<>>,
           hasPath |-> FALSE, path |-> <<>>]

\* r.FormFile("file"): a part with a file name, the name reduced to its last
\* element by mime/multipart (Part.FileName applies filepath.Base)
FormFile(form) ==
    IF form.hasFile /\ form.fileName # <<>>
    THEN [err |-> FALSE, Filename |-> Base(form.fileName)]
    ELSE [err |-> TRUE, Filename |-> <<>>]

\* r.FormValue(key) after ParseMultipartForm: r.Form holds the values of the
\* URL query first and the values of the multipart body after them
FormValue(rawQuery, form, key) ==
    Bind(QueryValues(rawQuery, key)
            \o (IF key = KeyPath /\ form.hasPath THEN <<form.path>> ELSE <<>>),
         LAMBDA vs : IF vs = <<>> THEN <<>> ELSE vs[1])

\* lines 717-722: the Location of the redirect after an upload
RedirectTarget(targetPath) ==
    IF targetPath = <<>> THEN <<Sep>>
    ELSE <<Sep, "?">> \o KeyPath \o <<"=">> \o targetPath

\* the request a client makes when it follows a Location: the fragment is
\* dropped, the rest splits at the first "?"
FollowRedirect(location) ==
    Bind(IF Contains(location, "#")
         THEN SubSeq(location, 1, Index(location, "#") - 1) ELSE location,
         LAMBDA u :
             IF Contains(u, "?")
             THEN [urlPath |-> SubSeq(u, 1, Index(u, "?") - 1),
                   rawQuery |-> SubSeq(u, Index(u, "?") + 1, Len(u))]
             ELSE [urlPath |-> u, rawQuery |-> <<>>])

\* net/http containsDotDot: a ".." element between slashes or backslashes
ContainsDotDot(urlPath) ==
    \E i \in 1..Len(urlPath) :
        /\ i < Len(urlPath)
        /\ urlPath[i] = Dot /\ urlPath[i + 1] = Dot
        /\ (i = 1 \/ urlPath[i - 1] \in {Sep, Bsl})
        /\ (i + 1 = Len(urlPath) \/ urlPath[i + 2] \in {Sep, Bsl})

(***************************************************************************)
(* File system calls of the handlers                                       *)
(***************************************************************************)
\* the directories above path, up to "/"
RECURSIVE Ancestors(_)
Ancestors(path) ==
    IF path = <<Sep>> THEN {}
    ELSE {ParentOf(path)} \cup Ancestors(ParentOf(path))

\* os.Stat(path): "notexist" is what os.IsNotExist accepts (ENOENT); a path
\* that leads through a regular file fails with another error (ENOTDIR)
Stat(f, path) ==
    IF Exists(f, path)
    THEN [err |-> "none", isDir |-> f[path].kind = "dir", size |-> SizeOf(f[path])]
    ELSE IF \E q \in Ancestors(path) : Exists(f, q) /\ f[q].kind = "file"
    THEN [err |-> "other", isDir |-> FALSE, size |-> 0]
    ELSE [err |-> "notexist", isDir |-> FALSE, size |-> 0]

\* a directory as os.MkdirAll creates it
NewDir == DirNode(4096, TRUE)

\* os.MkdirAll(path, 0755): fails when path or a directory above it is a
\* regular file, otherwise creates every missing directory down to path
MkdirAll(f, path) ==
    Bind(Ancestors(path) \cup {path}, LAMBDA dirs :
        IF \E q \in dirs : Exists(f, q) /\ f[q].kind = "file"
        THEN [err |-> TRUE, fs |-> f]
        ELSE [err |-> FALSE,
              fs |-> [q \in DOMAIN f \cup dirs |->
                         IF q \in DOMAIN f THEN f[q] ELSE NewDir]])

\* os.Create(name): fails when name is a directory or is not in a directory,
\* otherwise the file exists and is empty
Create(f, name) ==
    IF IsDirAt(f, name) \/ ~IsDirAt(f, ParentOf(name))
    THEN [err |-> TRUE, fs |-> f]
    ELSE [err |-> FALSE,
          fs |-> [q \in DOMAIN f \cup {name} |->
                     IF q = name THEN FileNode(<<>>) ELSE f[q]]]

\* the write stores nothing
WriteAt_Drop(data, offset, bytes) == data

\* a write of bytes at offset into a file holding data; a hole reads as "0"
WriteAt(data, offset, bytes) ==
    [i \in 1..(IF Len(data) > offset + Len(bytes) THEN Len(data)
               ELSE offset + Len(bytes)) |->
        IF i > offset /\ i <= offset + Len(bytes) THEN bytes[i - offset]
        ELSE IF i <= Len(data) THEN data[i] ELSE "0"]

\* File.Write on an open handle of name
Write(f, name, offset, bytes) ==
    [f EXCEPT ![name] = FileNode(WriteAt(f[name].data, offset, bytes))]
(***************************************************************************)
(* Spec: the server of main(), requests served one step at a time          *)
(***************************************************************************)
\* the tree the server starts on: the served root /r under "/", holding the
\* directory a, the files f, a/f and a file whose name begins with two dots
ServedTree ==
    (<<Sep>> :> NewDir) @@ (ListRoot :> NewDir)
        @@ (ListRoot \o <<Sep, "a">> :> NewDir)
        @@ (ListRoot \o <<Sep, "f">> :> FileNode(<<"x">>))
        @@ (ListRoot \o <<Sep, "a", Sep, "f">> :> FileNode(<<"x", "x">>))
        @@ (ListRoot \o <<Sep, Dot, Dot, "a">> :> FileNode(<<"x">>))

\* values of the form field and of the query parameter "path"
UploadPaths ==
    {<<>>, <<"a">>, <<"b">>, <<"f">>, DotDot, <<"a", "&", "b">>}

ListingPaths == UploadPaths \cup {<<Sep, "a">>, <<"a", Sep, "f">>, <<Bsl, Dot, Dot>>}

\* what follows /download/ in the URL path
DownloadPaths ==
    {<<>>, <<"a">>, <<"f">>, <<"a", Sep, "f">>, <<"b">>, <<"f", Sep, "x">>,
     <<Dot, Dot, "a">>, <<Bsl, Dot, Dot>>, <<Dot, Dot, Sep, "f">>, <<"a", Sep>>}

\* file names as the client sends them
FileNames == {<<"f">>, DotDot, <<"a", Sep, "g">>}

Contents == {<<>>, <<"y", "z">>}

\* a private and a public IPv4 client, each with a port
RemoteAddrs ==
    {RemoteAddr([ip |-> ip, host |-> <<>>, hasPort |-> TRUE]) :
        ip \in {IPv4(192, 168, 0, 1), IPv4(8, 0, 0, 1)}}

QueryOf(p) == KeyPath \o <<"=">> \o p

Forms ==
    [hasFile : {TRUE}, fileName : FileNames, data : Contents,
     hasPath : {TRUE}, path : UploadPaths]
        \cup [hasFile : {TRUE}, fileName : FileNames, data : Contents,
              hasPath : {FALSE}, path : {<<>>}]
        \cup [hasFile : {FALSE}, fileName : {<<>>}, data : {<<>>},
              hasPath : {TRUE}, path : {<<>>, <<"a">>}]

Requests ==
    [method : {"GET"}, urlPath : {<<Sep>>},
     rawQuery : {<<>>} \cup {QueryOf(p) : p \in ListingPaths},
     remoteAddr : RemoteAddrs, form : {NoForm}]
        \cup [method : {"POST"}, urlPath : {<<Sep>>}, rawQuery : {<<>>},
              remoteAddr : RemoteAddrs, form : Forms]
        \cup [method : {"POST"}, urlPath : {<<Sep>>}, rawQuery : {QueryOf(<<"a">>)},
              remoteAddr : RemoteAddrs,
              form : {fm \in Forms : fm.fileName = <<"f">> /\ fm.data # <<>>
                                         /\ fm.path \in {<<>>, <<"b">>}}]
        \cup [method : {"GET"},
              urlPath : {UrlDownload \o p : p \in DownloadPaths}
                            \cup {<<Sep, "x">>, SubSeq(UrlDownload, 1, 9)},
              rawQuery : {<<>>}, remoteAddr : RemoteAddrs, form : {NoForm}]

NoRequest == [method |-> "", urlPath |-> <<>>, rawQuery |-> <<>>,
              remoteAddr |-> <<>>, form |-> NoForm]

\* a connection with no request: the locals of the handlers and the response
Idle ==
    [pc |-> "idle", req |-> NoRequest, handler |-> "",
     requestedPath |-> <<>>, targetPath |-> <<>>, header |-> <<>>,
     uploadDir |-> <<>>, filename |-> <<>>, fullPath |-> <<>>,
     offset |-> 0, dst |-> "none",
     status |-> 0, location |-> <<>>, contentLength |-> -1, body |-> <<>>,
     files |-> <<>>,
     ops |-> <<>>, resolves |-> 0]

Conns == {1}

Init ==
    /\ resolver = Unused
    /\ gate = Unused
    /\ lister = Unused
    /\ fs = ServedTree
    /\ server \in [pc : {"serving"}, DownloadDir : {ListRoot}, LocalOnly : BOOLEAN,
                   served : {0}, conns : {[c \in Conns |-> Idle]}, uploaded : {{}}]

\* a file system call with the path handed to it
Op(op, path) == [op |-> op, path |-> path]

\* the response is written and the handler returns
Respond(conn, status) == [conn EXCEPT !.pc = "done", !.status = status]

\* the completed uploads whose file has not been written since, without name
Forget(uploaded, name) == {u \in uploaded : u.file # name}

\* a request arrives on connection c
Arrive(c) ==
    /\ server.conns[c].pc \in {"idle", "done"}
    /\ server.served < MaxRequests
    /\ \E r \in Requests :
           server' = [server EXCEPT !.served = @ + 1,
                         !.conns[c] = [Idle EXCEPT !.pc = "arrived", !.req = r]]
    /\ UNCHANGED <<resolver, gate, fs, lister>>

\* lines 797-799 and 596-613: the mux picks the handler, the filter around
\* it answers 403 or passes the request on
Route(c) ==
    /\ server.conns[c].pc = "arrived"
    /\ \E conn \in {server.conns[c]} :
       \E m \in {ServeMux(conn.req.urlPath)} :
          server' = [server EXCEPT !.conns[c] =
              IF m.handler = "redirect"
              THEN [Respond(conn, 301) EXCEPT !.handler = m.handler,
                                              !.location = m.location]
              ELSE IF ~localNetworkFilter(conn.req.remoteAddr, server.LocalOnly)
              THEN [Respond(conn, 403) EXCEPT !.handler = m.handler]
              ELSE [conn EXCEPT !.pc = m.handler, !.handler = m.handler]]
    /\ UNCHANGED <<resolver, gate, fs, lister>>

\* lines 673-689: the upload up to the resolution of its target
UploadStart(conn, downloadDir) ==
    Bind(FormFile(conn.req.form), LAMBDA file :
        IF file.err THEN Respond(conn, 400)
        ELSE Bind(FormValue(conn.req.rawQuery, conn.req.form, KeyPath),
                  LAMBDA targetPath :
             Bind(safeJoinPath(downloadDir, targetPath), LAMBDA uploadDir :
                 IF uploadDir.err
                 THEN [Respond(conn, 400) EXCEPT !.targetPath = targetPath,
                                                 !.header = file.Filename,
                                                 !.resolves = @ + 1]
                 ELSE [conn EXCEPT !.pc = "mkdir", !.targetPath = targetPath,
                                   !.header = file.Filename,
                                   !.uploadDir = uploadDir.path,
                                   !.resolves = @ + 1])))

\* lines 725-750: the listing
Listing(conn, f, downloadDir) ==
    Bind(listFilesRecursive(f, downloadDir, conn.requestedPath, ListDepth),
         LAMBDA r :
             [Respond(conn, IF r.err THEN 500 ELSE 200) EXCEPT
                 !.files = r.files,
                 !.ops = @ \o [i \in 1..Len(r.reads) |-> Op("ReadDir", r.reads[i])],
                 !.resolves = @ + r.calls])

\* homeHandler, lines 661-751, up to the first file system change
HomeHandler(c) ==
    /\ server.conns[c].pc = "home"
    /\ \E conn \in {server.conns[c]} :
          server' = [server EXCEPT !.conns[c] =
              IF conn.req.urlPath # <<Sep>> THEN Respond(conn, 404)
              ELSE Bind([conn EXCEPT !.requestedPath =
                            TrimPrefix(QueryGet(conn.req.rawQuery, KeyPath), <<Sep>>)],
                        LAMBDA cn :
                            IF cn.req.method = "POST"
                            THEN UploadStart(cn, server.DownloadDir)
                            ELSE Listing(cn, fs, server.DownloadDir))]
    /\ UNCHANGED <<resolver, gate, fs, lister>>

\* lines 692-696
UploadMkdir(c) ==
    /\ server.conns[c].pc = "mkdir"
    /\ \E conn \in {[server.conns[c] EXCEPT
                        !.ops = Append(@, Op("MkdirAll", server.conns[c].uploadDir))]} :
       \E m \in {MkdirAll(fs, conn.uploadDir)} :
          /\ fs' = m.fs
          /\ server' = [server EXCEPT !.conns[c] =
                 IF m.err THEN Respond(conn, 500) ELSE [conn EXCEPT !.pc = "create"]]
    /\ UNCHANGED <<resolver, gate, lister>>

\* line 699
UploadDest(uploadDir, name) == Join(uploadDir, name)

\* lines 699-705
UploadCreate(c) ==
    /\ server.conns[c].pc = "create"
    /\ \E filename \in {UploadDest(server.conns[c].uploadDir, server.conns[c].header)} :
       \E conn \in {[server.conns[c] EXCEPT !.filename = filename,
                        !.ops = Append(@, Op("Create", filename))]} :
       \E m \in {Create(fs, filename)} :
          /\ fs' = m.fs
          /\ server' = [server EXCEPT
                 !.uploaded = IF m.err THEN @ ELSE Forget(@, filename),
                 !.conns[c] = IF m.err THEN Respond(conn, 500)
                              ELSE [conn EXCEPT !.pc = "copy", !.dst = "open"]]
    /\ UNCHANGED <<resolver, gate, lister>>

\* lines 708-712: one write of io.Copy, which may fail
UploadCopy(c) ==
    /\ server.conns[c].pc = "copy"
    /\ server.conns[c].offset < Len(server.conns[c].req.form.data)
    /\ \E conn \in {server.conns[c]} :
       \E written \in BOOLEAN :
          IF written
          THEN /\ fs' = Write(fs, conn.filename, conn.offset,
                              <<conn.req.form.data[conn.offset + 1]>>)
               /\ server' = [server EXCEPT
                      !.uploaded = Forget(@, conn.filename),
                      !.conns[c] = [conn EXCEPT !.offset = @ + 1]]
          ELSE /\ fs' = fs
               /\ server' = [server EXCEPT
                      !.conns[c] = [Respond(conn, 500) EXCEPT !.dst = "closed"]]
    /\ UNCHANGED <<resolver, gate, lister>>

\* lines 714-722: the copy is complete, the file is closed, the redirect sent
UploadFinish(c) ==
    /\ server.conns[c].pc = "copy"
    /\ server.conns[c].offset = Len(server.conns[c].req.form.data)
    /\ \E conn \in {server.conns[c]} :
          server' = [server EXCEPT
              !.uploaded = Forget(@, conn.filename)
                  \cup {[file |-> conn.filename, path |-> conn.targetPath,
                         name |-> conn.header, n |-> conn.offset]},
              !.conns[c] = [Respond(conn, 303) EXCEPT
                               !.dst = "closed",
                               !.location = RedirectTarget(conn.targetPath)]]
    /\ UNCHANGED <<resolver, gate, fs, lister>>

\* downloadHandler, lines 754-786: up to the response headers
DownloadHandler(c) ==
    /\ server.conns[c].pc = "download"
    /\ \E conn \in {server.conns[c]} :
       \E filePath \in {TrimPrefix(conn.req.urlPath, UrlDownload)} :
          server' = [server EXCEPT !.conns[c] =
              IF filePath = <<>> THEN Respond(conn, 400)
              ELSE Bind(safeJoinPath(server.DownloadDir, filePath), LAMBDA fullPath :
                  IF fullPath.err THEN [Respond(conn, 400) EXCEPT !.resolves = @ + 1]
                  ELSE Bind([conn EXCEPT !.resolves = @ + 1,
                                !.fullPath = fullPath.path,
                                !.ops = Append(@, Op("Stat", fullPath.path))],
                            LAMBDA cn :
                       Bind(Stat(fs, fullPath.path), LAMBDA fileInfo :
                           IF fileInfo.err = "notexist" THEN Respond(cn, 404)
                           ELSE IF fileInfo.err # "none" THEN Respond(cn, 500)
                           ELSE IF fileInfo.isDir THEN Respond(cn, 400)
                           ELSE [cn EXCEPT !.pc = "serve",
                                           !.contentLength = fileInfo.size])))]
    /\ UNCHANGED <<resolver, gate, fs, lister>>

\* line 792, http.ServeFile: a URL path with a ".." element is refused; the
\* file is opened and sent whole with its length (requests carry no Range
\* or conditional headers; no operation of the server removes a file)
ServeFile(c) ==
    /\ server.conns[c].pc = "serve"
    /\ \E conn \in {[server.conns[c] EXCEPT
                        !.ops = Append(@, Op("Open", server.conns[c].fullPath))]} :
          server' = [server EXCEPT !.conns[c] =
              IF ContainsDotDot(conn.req.urlPath)
              THEN [Respond(conn, 400) EXCEPT !.contentLength = -1]
              ELSE IF ~Exists(fs, conn.fullPath) \/ IsDirAt(fs, conn.fullPath)
              THEN [Respond(conn, 404) EXCEPT !.contentLength = -1]
              ELSE [Respond(conn, 200) EXCEPT
                       !.body = fs[conn.fullPath].data,
                       !.contentLength = Len(fs[conn.fullPath].data)]]
    /\ UNCHANGED <<resolver, gate, fs, lister>>

Next ==
    \/ \E c \in Conns : Arrive(c)
    \/ \E c \in Conns : Route(c)
    \/ \E c \in Conns : HomeHandler(c)
    \/ \E c \in Conns : UploadMkdir(c)
    \/ \E c \in Conns : UploadCreate(c)
    \/ \E c \in Conns : UploadCopy(c)
    \/ \E c \in Conns : UploadFinish(c)
    \/ \E c \in Conns : DownloadHandler(c)
    \/ \E c \in Conns : ServeFile(c)

Spec == Init /\ [][Next]_vars
(***************************************************************************)
(* Properties of the server                                                *)
(***************************************************************************)
\* the request of connection c was handed to a route's handler chain
Dispatched(conn) == conn.handler \in {"home", "download"}

\* the handler behind the filter answered
Answered(conn) == conn.pc = "done" /\ Dispatched(conn) /\ conn.status # 403

IsListing(conn) == conn.handler = "home" /\ conn.req.urlPath = <<Sep>>
                       /\ conn.req.method # "POST"

IsUpload(conn) == conn.handler = "home" /\ conn.req.urlPath = <<Sep>>
                      /\ conn.req.method = "POST"

IsDownload(conn) == conn.handler = "download"

\* a user path with either separator read as a separator
Slashed(p) == [i \in 1..Len(p) |-> IF p[i] = Bsl THEN Sep ELSE p[i]]

\* the user path leads out of root
Escapes(root, p) == ~IsWithin(root, Join(root, Slashed(p)))

\* the user path of a request: the path parameter of a listing, the value of
\* "path" of an upload, the rest of the URL path of a download
UserPath(conn) ==
    IF IsDownload(conn) THEN TrimPrefix(conn.req.urlPath, UrlDownload)
    ELSE IF IsUpload(conn) THEN FormValue(conn.req.rawQuery, conn.req.form, KeyPath)
    ELSE QueryGet(conn.req.rawQuery, KeyPath)

\* C2: every path handed to a file system call lies within the served root,
\* the destination of an upload (upload directory plus the file name sent
\* by the client) included.
C2_FsPathsWithinRoot ==
    \A c \in Conns :
        \A i \in 1..Len(server.conns[c].ops) :
            IsWithin(server.DownloadDir, server.conns[c].ops[i].path)

\* C3: with the local-only policy on, a request handed to the route "/" or
\* "/download/" from a client address that isLocalIP does not classify as
\* local is answered with 403, and from its arrival to that response no path
\* is resolved and no file system call is made.
C3_NonLocalGets403 ==
    \A c \in Conns :
        LET conn == server.conns[c]
        IN  /\ conn.pc = "arrived" => conn.ops = <<>> /\ conn.resolves = 0
            /\ (/\ Dispatched(conn)
                /\ server.LocalOnly
                /\ ~isLocalIP(clientIP(conn.req.remoteAddr)))
                   => /\ conn.pc = "done"
                      /\ conn.status = 403
                      /\ conn.ops = <<>>
                      /\ conn.resolves = 0
                      /\ conn.body = <<>> /\ conn.files = <<>>

\* a public client asked for the existing file f and was refused
C3_Witness_Refused ==
    \E c \in Conns :
        /\ server.conns[c].status = 403
        /\ server.conns[c].req.urlPath = UrlDownload \o <<"f">>
        /\ server.conns[c].req.remoteAddr
               = RemoteAddr([ip |-> IPv4(8, 0, 0, 1), host |-> <<>>, hasPort |-> TRUE])

\* C5: a listing, an upload or a download whose path leads out of the served
\* root ends with status 400 and makes no file system call.
C5_EscapeGives400 ==
    \A c \in Conns :
        LET conn == server.conns[c]
        IN  (/\ Answered(conn)
             /\ IsListing(conn) \/ IsUpload(conn) \/ IsDownload(conn)
             /\ Escapes(server.DownloadDir, UserPath(conn)))
                => conn.status = 400 /\ conn.ops = <<>>

\* where the file a download names is, by the resolver or, when it refuses
\* a path that stays within the root, by plain joining
DownloadTarget(root, filePath) ==
    Bind(safeJoinPath(root, filePath), LAMBDA r :
        IF r.err THEN Join(root, filePath) ELSE r.path)

\* C6: a download ends with 400 when the path is empty or leads out of the
\* root, 404 when the target does not exist, 500 on another stat error, 400
\* when the target is a directory, and otherwise with the file's bytes and
\* a Content-Length equal to its size.
C6_DownloadOutcome ==
    \A c \in Conns :
        LET conn == server.conns[c]
            filePath == UserPath(conn)
            info == Stat(fs, DownloadTarget(server.DownloadDir, filePath))
        IN  (Answered(conn) /\ IsDownload(conn)) =>
                IF filePath = <<>> \/ Escapes(server.DownloadDir, filePath)
                THEN conn.status = 400 /\ conn.body = <<>>
                ELSE IF info.err = "notexist" THEN conn.status = 404
                ELSE IF info.err # "none" THEN conn.status = 500
                ELSE IF info.isDir THEN conn.status = 400
                ELSE /\ conn.status = 200
                     /\ conn.contentLength = info.size
                     /\ conn.body = fs[DownloadTarget(server.DownloadDir, filePath)].data

\* C7: an upload ends with 400 exactly when there is no file part or the
\* form field "path" (the root when the field is absent) fails to resolve,
\* with 500 when a directory or the file cannot be created or written, and
\* otherwise with a 303 redirect to the listing of that same path.
C7_UploadOutcome ==
    \A c \in Conns :
        LET conn == server.conns[c]
            p == IF conn.req.form.hasPath THEN conn.req.form.path ELSE <<>>
            next == FollowRedirect(conn.location)
        IN  (Answered(conn) /\ IsUpload(conn)) =>
                /\ conn.status \in {400, 500, 303}
                /\ conn.status = 400 <=>
                       (FormFile(conn.req.form).err
                            \/ safeJoinPath(server.DownloadDir, p).err)
                /\ conn.status = 500 => conn.ops # <<>>
                /\ conn.status = 303 =>
                       /\ next.urlPath = <<Sep>>
                       /\ QueryGet(next.rawQuery, KeyPath) = p

\* C8: an upload answered with 303 has created <root>/p/f with the bytes
\* sent, under directories, and a listing of p made while that file has not
\* been written again holds a node with name f, isDir false, path join(p, f)
\* and size n.
C8_UploadThenListed ==
    \A c \in Conns :
        LET conn == server.conns[c]
            dest == Join(safeJoinPath(server.DownloadDir, conn.targetPath).path,
                         conn.header)
        IN  /\ (Answered(conn) /\ IsUpload(conn) /\ conn.status = 303) =>
                   /\ ~safeJoinPath(server.DownloadDir, conn.targetPath).err
                   /\ Exists(fs, dest)
                   /\ fs[dest] = FileNode(conn.req.form.data)
                   /\ \A d \in Ancestors(dest) : IsDirAt(fs, d)
                   /\ IsWithin(server.DownloadDir, dest)
            /\ (Answered(conn) /\ IsListing(conn) /\ conn.status = 200) =>
                   \A u \in server.uploaded :
                       u.path = conn.requestedPath =>
                           \E i \in 1..Len(conn.files) :
                               conn.files[i] = FileInfo(u.name, u.n, FALSE,
                                                        Join(u.path, u.name))

\* two bytes were uploaded as f into the new directory b, which was then
\* listed
C8_Witness_ListedAfterUpload ==
    \E c \in Conns : \E u \in server.uploaded :
        /\ Answered(server.conns[c]) /\ IsListing(server.conns[c])
        /\ server.conns[c].status = 200
        /\ server.conns[c].requestedPath = <<"b">>
        /\ u.path = <<"b">> /\ u.name = <<"f">> /\ u.n = 2
(***************************************************************************)
(* Properties of safeJoinPath as a function of the user path               *)
(***************************************************************************)
\* the canonical form of a user path: either separator read as "/", "." and
\* ".." and repeated separators collapsed, the leading separator stripped
Canonical(p) == TrimPrefix(Clean(Slashed(p)), <<Sep>>)

\* C11: safeJoinPath gives the same outcome for a user path and for its
\* canonical form (the same resolved path, or an error for both), whatever
\* the repeated separators, the leading separator or the separator style.
C11_SameAsCanonical ==
    resolver.pc = "ret" =>
        safeJoinPath(resolver.baseDir, Canonical(resolver.userPath)) = resolver.result

\* the part of C11 the code satisfies: user paths written with "/" only
C11_HoldsWithoutBackslash ==
    (resolver.pc = "ret" /\ ~Contains(resolver.userPath, Bsl)) =>
        safeJoinPath(resolver.baseDir, Canonical(resolver.userPath)) = resolver.result

\* the user path as safeJoinPath normalizes it: cleaned, one leading
\* separator of either style stripped
Normalized(p) == TrimPrefix(TrimPrefix(Clean(p), <<Sep>>), <<Bsl>>)

\* C13: safeJoinPath fails exactly when the normalized user path joined onto
\* the root lies outside the root, and otherwise returns that joined path;
\* a first segment that merely begins with two dots is an ordinary name.
C13_FailsOnlyOnEscape ==
    resolver.pc = "ret" =>
        LET target == Join(resolver.baseDir, Normalized(resolver.userPath))
        IN  IF IsWithin(resolver.baseDir, target)
            THEN resolver.result = [err |-> FALSE, path |-> target]
            ELSE resolver.result.err

\* the part of C13 the code satisfies: every user path whose target's
\* relative path does not begin with two dots
C13_HoldsUnlessTwoDots ==
    resolver.pc = "ret" =>
        LET target == Join(resolver.baseDir, Normalized(resolver.userPath))
        IN  ~HasPrefix(Rel(resolver.baseDir, target).path, DotDot) =>
                /\ IsWithin(resolver.baseDir, target)
                /\ resolver.result = [err |-> FALSE, path |-> target]
(***************************************************************************)
(* Properties of the nodes listFilesRecursive returns                      *)
(***************************************************************************)
\* every node at every level: a size that is no negative number and is 0 for
\* a directory, no children for a file, children only for a directory and
\* only down to the given number of levels
RECURSIVE WellFormed(_, _)
WellFormed(files, levels) ==
    \A i \in 1..Len(files) :
        /\ files[i].Size \in Nat
        /\ files[i].IsDir => files[i].Size = 0
        /\ ~files[i].IsDir => files[i].Children = <<>>
        /\ files[i].Children # <<>> => files[i].IsDir /\ levels > 0
        /\ WellFormed(files[i].Children, levels - 1)

\* C14: every node produced by listFilesRecursive is well-formed: its size
\* is non-negative and 0 for a directory, its children are empty for a file
\* and populated only for directories within the depth limit.
C14_NodesWellFormed ==
    lister.pc = "done" => WellFormed(lister.files, lister.depth)

\* the part of C14 the code satisfies: everything but the size of directories
RECURSIVE ChildrenWellFormed(_, _)
ChildrenWellFormed(files, levels) ==
    \A i \in 1..Len(files) :
        /\ files[i].Size \in Nat
        /\ ~files[i].IsDir => files[i].Children = <<>>
        /\ files[i].Children # <<>> => files[i].IsDir /\ levels > 0
        /\ ChildrenWellFormed(files[i].Children, levels - 1)

C14_HoldsButDirectorySize ==
    lister.pc = "done" => ChildrenWellFormed(lister.files, lister.depth)

\* the tree f with every directory but top readable
MakeReadable(f, top) ==
    [q \in DOMAIN f |->
        IF q # top /\ f[q].kind = "dir" THEN [f[q] EXCEPT !.readable = TRUE]
        ELSE f[q]]

\* the directory of a node cannot be read in f
Unreadable(f, baseDir, node) ==
    /\ node.IsDir
    /\ Bind(safeJoinPath(baseDir, node.Path), LAMBDA dir :
           ~dir.err /\ Exists(f, dir.path) /\ ~f[dir.path].readable)

\* a listing with the children of the directories that cannot be read in f
\* taken out
RECURSIVE Prune(_, _, _)
Prune(files, f, baseDir) ==
    [i \in 1..Len(files) |->
        IF Unreadable(f, baseDir, files[i]) THEN [files[i] EXCEPT !.Children = <<>>]
        ELSE [files[i] EXCEPT !.Children = Prune(@, f, baseDir)]]

\* C15: the call fails only when the requested directory itself cannot be
\* resolved or read; a subdirectory that cannot be read appears as a node
\* without children, and everything else is returned as it would be if
\* every subdirectory could be read.
C15_PartialListing ==
    lister.pc = "done" =>
        Bind(safeJoinPath(lister.baseDir, lister.relativePath), LAMBDA top :
            /\ lister.err <=> (top.err \/ ReadDir(fs, top.path).err)
            /\ ~lister.err =>
                   lister.files =
                       Prune(listFilesRecursive(MakeReadable(fs, top.path), lister.baseDir,
                                                lister.relativePath, lister.depth).files,
                             fs, lister.baseDir))

\* the root was listed at depth 1: its directory a, which holds an entry but
\* cannot be read, is a node without children next to its sibling
C15_Witness_UnreadableSubdir ==
    /\ lister.pc = "done" /\ ~lister.err
    /\ lister.relativePath = <<>> /\ lister.depth = 1
    /\ Len(lister.files) = 2
    /\ Exists(fs, ListRoot \o <<Sep, "a", Sep, "a">>)
    /\ ~fs[ListRoot \o <<Sep, "a">>].readable
    /\ \E i \in 1..2 : /\ lister.files[i].Name = <<"a">>
                       /\ lister.files[i].IsDir
                       /\ lister.files[i].Children = <<>>
(***************************************************************************)
(* SpecRace: two uploads served at the same time, each handler goroutine   *)
(* taking its steps in any order with the other's                          *)
(***************************************************************************)
RaceConns == {1, 2}

\* what each connection uploads: bytes that tell the two uploads apart
RaceData(c) == IF c = 1 THEN {<<"y", "z">>} ELSE {<<"p", "q">>, <<"p">>}

\* uploads of a file named f into the root or into the new directory b, from
\* a private client
RaceUploads(c) ==
    [method : {"POST"}, urlPath : {<<Sep>>}, rawQuery : {<<>>},
     remoteAddr : {RemoteAddr([ip |-> IPv4(192, 168, 0, 1), host |-> <<>>,
                               hasPort |-> TRUE])},
     form : [hasFile : {TRUE}, fileName : {<<"f">>}, data : RaceData(c),
             hasPath : {TRUE}, path : {<<>>, <<"b">>}]]

InitRace ==
    /\ resolver = Unused
    /\ gate = Unused
    /\ lister = Unused
    /\ fs = ServedTree
    /\ server \in [pc : {"serving"}, DownloadDir : {ListRoot}, LocalOnly : BOOLEAN,
                   served : {0}, conns : {[c \in RaceConns |-> Idle]}, uploaded : {{}}]

\* an upload arrives on connection c; net/http serves each connection in a
\* goroutine of its own
RaceArrive(c) ==
    /\ server.conns[c].pc = "idle"
    /\ \E r \in RaceUploads(c) :
           server' = [server EXCEPT !.served = @ + 1,
                         !.conns[c] = [Idle EXCEPT !.pc = "arrived", !.req = r]]
    /\ UNCHANGED <<resolver, gate, fs, lister>>

NextRace ==
    \/ \E c \in RaceConns : RaceArrive(c)
    \/ \E c \in RaceConns : Route(c)
    \/ \E c \in RaceConns : HomeHandler(c)
    \/ \E c \in RaceConns : UploadMkdir(c)
    \/ \E c \in RaceConns : UploadCreate(c)
    \/ \E c \in RaceConns : UploadCopy(c)
    \/ \E c \in RaceConns : UploadFinish(c)

SpecRace == InitRace /\ [][NextRace]_vars

\* C12: when two concurrent uploads of the same file name into the same
\* directory both end with 303, the destination file holds exactly the
\* bytes of one of them, and no handler returns with its destination file
\* still open.
C12_LastWriterWins ==
    /\ (/\ \A c \in RaceConns : /\ server.conns[c].pc = "done"
                                /\ server.conns[c].status = 303
        /\ server.conns[1].filename = server.conns[2].filename)
           => fs[server.conns[1].filename].data
                  \in {server.conns[c].req.form.data : c \in RaceConns}
    /\ \A c \in RaceConns :
           server.conns[c].pc = "done" => server.conns[c].dst # "open"

\* the part of C12 the code satisfies: the destination file is closed on
\* every return after os.Create succeeded, and was never opened otherwise
C12_HandlesClosed ==
    \A c \in RaceConns :
        server.conns[c].pc = "done" =>
            server.conns[c].dst = (IF server.conns[c].status = 303
                                      \/ (server.conns[c].status = 500
                                            /\ server.conns[c].offset
                                                 < Len(server.conns[c].req.form.data)
                                            /\ Len(server.conns[c].ops) = 2)
                                   THEN "closed" ELSE "none")
====
